---- MODULE Spec2Model ----
(***************************************************************************)
(* Model of engine/api/project/gorp_model.go: the database rows of a       *)
(* project (dbProject), of a project variable (dbProjectVariable), of a    *)
(* project key (dbProjectKey) and of a variable audit                      *)
(* (dbProjectVariableAudit), with the gorp hooks PreInsert, PostInsert,    *)
(* PostUpdate and PostGet that the file attaches to them.                  *)
(*                                                                         *)
(* A Go string is a sequence of one-character strings, so that the         *)
(* concatenation done by the canonical-form templates and the escaping     *)
(* done by the JSON encoder are computed and not assumed.                  *)
(***************************************************************************)
EXTENDS Integers, Sequences, FiniteSets, TLC

VARIABLES
    \* project_variable / project_key: the signed row under observation
    kind,        \* "none", "variable" (dbProjectVariable) or "key" (dbProjectKey)
    row,         \* the stored row
    sig,         \* SignedEntity: the canonical form the signature was made for
    signedRow,   \* history: the row as it was when it was signed
    varGiven,    \* history: the sdk.Variable given to newDBProjectVariable
    loaded,      \* the sdk.Variable returned by Variable() on the last read
    sOp,         \* last operation on the signed row
    \* project_variable_audit: one row, and the in-memory record
    auditRow,    \* NoRow, or [variable_before, variable_after] (NULL or JSON text)
    pva,         \* in-memory dbProjectVariableAudit after the last write that
                 \* succeeded, or as the last PostGet left it
    given,       \* history: the record as the caller handed it to that write
    aOp,         \* last operation on the audit row
    aErr,        \* error returned by the last audit hook
    rowFrom,     \* history: which operation wrote the stored columns last
    \* project: one row, and the in-memory dbProject
    projRow,     \* NoRow, or [metadata, vcs_servers]
    p,           \* in-memory dbProject: Metadata, VCSServers, DeprecatedVCSServers
    fields,      \* PostGet's local: the vcs_servers bytes it scanned
    pOp,         \* last operation on the project row
    pErr,        \* error returned by the last project hook
    updates      \* number of db.Update calls issued by the last PostGet

signedVars == <<kind, row, sig, signedRow, varGiven, loaded, sOp>>
auditVars == <<auditRow, pva, given, aOp, aErr, rowFrom>>
projVars == <<projRow, p, fields, pOp, pErr, updates>>
vars == <<signedVars, auditVars, projVars>>

----------------------------------------------------------------------------
(* Bounds and sample values *)

\* identifiers are 1, 11, ..., 10*MaxTens+1
MaxTens == 1
\* audit snapshots carry variable ids 0..MaxVarId
MaxVarId == 1

Ids == {10 * a + 1 : a \in 0..MaxTens}

NoRow == [none |-> TRUE]
Nil == [nil |-> TRUE]
NULL == <<"NULL">>

\* sdk variable types (sdk.SecretVariable, sdk.KeyVariable, sdk.StringVariable)
SecretVariable == <<"p", "a", "s", "s", "w", "o", "r", "d">>
KeyVariable == <<"k", "e", "y">>
StringVariable == <<"s", "t", "r", "i", "n", "g">>
Types == {SecretVariable, KeyVariable, StringVariable}

\* sdk.PasswordPlaceholder
PasswordPlaceholder == <<"*", "*", "*", "*", " ">>

\* sdk.NeedPlaceholder: the secret-class types
NeedPlaceholder(t) == t \in {SecretVariable, KeyVariable}

Names == {<<"T">>, <<"T", "k">>}
\* values: one plain word, one with the characters JSON escapes
Values == {<<"s", "3">>, <<"\"", "\\">>}

Digits == <<"0", "1", "2", "3", "4", "5", "6", "7", "8", "9">>

\* {{print .ID}}: the decimal form of a non-negative int64
RECURSIVE Dec(_)
Dec(n) == IF n < 10 THEN <<Digits[n + 1]>>
          ELSE Dec(n \div 10) \o <<Digits[(n % 10) + 1]>>

----------------------------------------------------------------------------
(* dbProjectKey, dbProjectVariable *)

\* mutant: the value column takes part in the canonical form
VariableCanonicalWithValue(e) ==
    Dec(e.ProjectID) \o Dec(e.ID) \o e.Name \o e.Type \o e.ClearValue

\* "{{print .ProjectID}}{{print .ID}}{{.Name}}{{.Type}}"
VariableCanonical(e) == Dec(e.ProjectID) \o Dec(e.ID) \o e.Name \o e.Type

\* "{{print .ProjectID}}{{print .ID}}{{.Name}}"
KeyCanonical(e) == Dec(e.ProjectID) \o Dec(e.ID) \o e.Name

Canonical(k, e) == IF k = "variable" THEN VariableCanonical(e) ELSE KeyCanonical(e)

\* mutant: every value goes to the clear column
NewDBProjectVariableAllClear(v, projID) ==
    [ID |-> v.ID, ProjectID |-> projID, Name |-> v.Name,
     ClearValue |-> v.Value, CipherValue |-> <<>>, Type |-> v.Type]

newDBProjectVariable(v, projID) ==
    IF NeedPlaceholder(v.Type)
    THEN [ID |-> v.ID, ProjectID |-> projID, Name |-> v.Name,
          ClearValue |-> <<>>, CipherValue |-> v.Value, Type |-> v.Type]
    ELSE [ID |-> v.ID, ProjectID |-> projID, Name |-> v.Name,
          ClearValue |-> v.Value, CipherValue |-> <<>>, Type |-> v.Type]

\* mutant: the accessor always reads the clear column
VariableFromClear(e) ==
    [ID |-> e.ID, Name |-> e.Name, Value |-> e.ClearValue, Type |-> e.Type]

Variable(e) ==
    IF NeedPlaceholder(e.Type)
    THEN [ID |-> e.ID, Name |-> e.Name, Value |-> e.CipherValue, Type |-> e.Type]
    ELSE [ID |-> e.ID, Name |-> e.Name, Value |-> e.ClearValue, Type |-> e.Type]

SdkVariables == [ID : Ids, Name : Names, Value : Values \cup {<<>>}, Type : Types]
KeyRows == [ID : Ids, ProjectID : Ids, Name : Names]

\* the identity fields of each kind of signed row
IdentityFields(k) == IF k = "variable" THEN {"ProjectID", "ID", "Name", "Type"}
                     ELSE {"ProjectID", "ID", "Name"}
FieldDomain(f) == CASE f \in {"ProjectID", "ID"} -> Ids
                    [] f = "Name" -> Names
                    [] f = "Type" -> Types
                    [] OTHER -> Values \cup {<<>>}

\* insert of a variable: the row is built, then signed
InsertVariable ==
    /\ kind = "none"
    /\ \E v \in SdkVariables, projID \in Ids :
          /\ row' = newDBProjectVariable(v, projID)
          /\ varGiven' = v
    /\ kind' = "variable"
    /\ sig' = Canonical("variable", row')
    /\ signedRow' = row'
    /\ loaded' = Nil
    /\ sOp' = "insert"
    /\ UNCHANGED <<auditVars, projVars>>

\* insert of a key: the row is signed
InsertKey ==
    /\ kind = "none"
    /\ \E k \in KeyRows : row' = k
    /\ kind' = "key"
    /\ sig' = Canonical("key", row')
    /\ signedRow' = row'
    /\ loaded' = Nil
    /\ sOp' = "insert"
    /\ UNCHANGED <<varGiven, auditVars, projVars>>

\* a stored identity column is changed behind the mapper: no new signature
TamperIdentity ==
    /\ kind # "none"
    /\ \E f \in IdentityFields(kind) : \E x \in FieldDomain(f) :
          /\ x # row[f]
          /\ row' = [row EXCEPT ![f] = x]
    /\ loaded' = Nil
    /\ sOp' = "tamper"
    /\ UNCHANGED <<kind, sig, signedRow, varGiven, auditVars, projVars>>

\* a stored value column (var_value, cipher_value) is changed, no new signature
TamperValue ==
    /\ kind = "variable"
    /\ \E f \in {"ClearValue", "CipherValue"} : \E x \in FieldDomain(f) :
          /\ x # row[f]
          /\ row' = [row EXCEPT ![f] = x]
    /\ loaded' = Nil
    /\ sOp' = "tamper"
    /\ UNCHANGED <<kind, sig, signedRow, varGiven, auditVars, projVars>>

\* read: the signature is checked against the canonical form of the row read
Load ==
    /\ kind # "none"
    /\ sOp # "load"
    /\ IF Canonical(kind, row) = sig
       THEN /\ sOp' = "load"
            /\ loaded' = IF kind = "variable" THEN Variable(row) ELSE Nil
       ELSE /\ sOp' = "integrityError"
            /\ loaded' = Nil
    /\ UNCHANGED <<kind, row, sig, signedRow, varGiven, auditVars, projVars>>

----------------------------------------------------------------------------
(* encoding/json on sdk.Variable: a JSON text is a sequence of tokens, the  *)
(* punctuation and the keys one token each, a number its decimal digits,    *)
(* and a string its characters between quotes, with " and \ escaped.        *)

ZeroVariable == [ID |-> 0, Name |-> <<>>, Value |-> <<>>, Type |-> <<>>]

RECURSIVE Escape(_)
Escape(s) ==
    IF s = <<>> THEN <<>>
    ELSE (IF Head(s) \in {"\"", "\\"} THEN <<"\\", Head(s)>> ELSE <<Head(s)>>)
         \o Escape(Tail(s))

JSONString(s) == <<"\"">> \o Escape(s) \o <<"\"">>

\* json.Marshal(sdk.Variable): the id is left out when it is zero
Marshal(v) ==
    <<"{">>
    \o (IF v.ID # 0 THEN <<"id:">> \o Dec(v.ID) \o <<",">> ELSE <<>>)
    \o <<"name:">> \o JSONString(v.Name) \o <<",">>
    \o <<"value:">> \o JSONString(v.Value) \o <<",">>
    \o <<"type:">> \o JSONString(v.Type)
    \o <<"}">>

Failed == [ok |-> FALSE]

\* the characters of a string, from the one after the opening quote
RECURSIVE ScanString(_, _, _)
ScanString(t, j, acc) ==
    IF j > Len(t) THEN Failed
    ELSE IF t[j] = "\"" THEN [ok |-> TRUE, val |-> acc, next |-> j + 1]
    ELSE IF t[j] = "\\"
         THEN IF j + 1 <= Len(t) /\ t[j + 1] \in {"\"", "\\", "/"}
              THEN ScanString(t, j + 2, Append(acc, t[j + 1]))
              ELSE Failed
    ELSE IF Len(t[j]) # 1 THEN Failed
    ELSE ScanString(t, j + 1, Append(acc, t[j]))

IsDigit(c) == \E d \in 1..Len(Digits) : Digits[d] = c
DigitValue(c) == (CHOOSE d \in 1..Len(Digits) : Digits[d] = c) - 1

RECURSIVE ScanNumber(_, _, _)
ScanNumber(t, j, n) ==
    IF j <= Len(t) /\ IsDigit(t[j])
    THEN ScanNumber(t, j + 1, 10 * n + DigitValue(t[j]))
    ELSE [ok |-> TRUE, val |-> n, next |-> j]

\* a value at position i: a string, a number, or neither
ParseValue(t, i) ==
    IF i > Len(t) THEN Failed
    ELSE IF t[i] = "\"" THEN [kind |-> "string"] @@ ScanString(t, i + 1, <<>>)
    ELSE IF IsDigit(t[i]) THEN [kind |-> "number"] @@ ScanNumber(t, i, 0)
    ELSE Failed

FieldOfKey(key) == CASE key = "id:" -> "ID"
                     [] key = "name:" -> "Name"
                     [] key = "value:" -> "Value"
                     [] key = "type:" -> "Type"
                     [] OTHER -> "unknown"

IsKey(tok) == Len(tok) > 1 /\ tok # "null"

\* the members of an object from position i on: a key the struct does not have
\* is skipped, a value of the wrong JSON type for its field is an error
RECURSIVE ParseMembers(_, _, _)
ParseMembers(t, i, v) ==
    IF i > Len(t) \/ ~IsKey(t[i]) THEN Failed
    ELSE LET f == FieldOfKey(t[i])
             x == ParseValue(t, i + 1)
         IN  IF ~x.ok THEN Failed
             ELSE IF f = "ID" /\ x.kind # "number" THEN Failed
             ELSE IF f \in {"Name", "Value", "Type"} /\ x.kind # "string" THEN Failed
             ELSE LET w == IF f = "unknown" THEN v ELSE [v EXCEPT ![f] = x.val]
                  IN  IF x.next > Len(t) THEN Failed
                      ELSE IF t[x.next] = "," THEN ParseMembers(t, x.next + 1, w)
                      ELSE IF t[x.next] = "}" /\ x.next = Len(t)
                           THEN [ok |-> TRUE, val |-> w]
                      ELSE Failed

\* json.Unmarshal(text, v): v is a fresh sdk.Variable
Unmarshal(t) ==
    IF t = <<"null">> THEN [ok |-> TRUE, val |-> ZeroVariable]
    ELSE IF Len(t) < 2 \/ t[1] # "{" THEN Failed
    ELSE IF t[2] = "}" THEN (IF Len(t) = 2 THEN [ok |-> TRUE, val |-> ZeroVariable]
                             ELSE Failed)
    ELSE ParseMembers(t, 2, ZeroVariable)

----------------------------------------------------------------------------
(* dbProjectVariableAudit *)

AuditName == <<"T">>
AuditVariables == [ID : 0..MaxVarId, Name : {AuditName}, Value : Values, Type : Types]
\* the records a caller hands to a write: the before snapshot may be nil, and
\* is a snapshot of the same variable as the after snapshot otherwise
Records == {rec \in [VariableBefore : AuditVariables \cup {Nil},
                     VariableAfter : AuditVariables] :
               rec.VariableBefore = Nil \/ rec.VariableBefore.ID = rec.VariableAfter.ID}
ZeroRecord == [VariableBefore |-> Nil, VariableAfter |-> ZeroVariable]

\* outcome of the json.Marshal calls of one PostUpdate: all succeed, or the
\* named one returns an error
MarshalOutcomes == {"ok", "beforeFails", "afterFails"}

\* lines 226-228 and 230-232, for one snapshot
Redacted(v) == IF NeedPlaceholder(v.Type) THEN [v EXCEPT !.Value = PasswordPlaceholder]
               ELSE v

\* mutant: PreInsert redacts every snapshot, whatever its type
PreInsertRedactAll(rec) ==
    [VariableBefore |-> IF rec.VariableBefore # Nil
                        THEN [rec.VariableBefore EXCEPT !.Value = PasswordPlaceholder]
                        ELSE Nil,
     VariableAfter |-> [rec.VariableAfter EXCEPT !.Value = PasswordPlaceholder]]

\* PreInsert: the record after the hook
PreInsert(rec) ==
    [VariableBefore |-> IF rec.VariableBefore # Nil THEN Redacted(rec.VariableBefore)
                        ELSE Nil,
     VariableAfter |-> Redacted(rec.VariableAfter)]

\* PostUpdate on record rec with stored row r: the error returned and the row
\* afterwards. The update statement changes no row when the table has none.
PostUpdate(rec, r, outcome) ==
    IF rec.VariableBefore # Nil /\ outcome = "beforeFails"
    THEN [err |-> "encode", row |-> r]
    ELSE IF outcome = "afterFails"
    THEN [err |-> "encode", row |-> r]
    ELSE [err |-> "nil",
          row |-> IF r = NoRow THEN NoRow
                  ELSE [variable_before |-> IF rec.VariableBefore # Nil
                                            THEN Marshal(rec.VariableBefore) ELSE NULL,
                        variable_after |-> Marshal(rec.VariableAfter)]]

\* PostInsert delegates to PostUpdate
PostInsert(rec, r, outcome) == PostUpdate(rec, r, outcome)

\* mutant: PostGet hands back what is stored, without redaction
PostGetNoRedaction(rec, r) ==
    IF r = NoRow THEN [err |-> "norows", rec |-> rec]
    ELSE LET b == IF r.variable_before # NULL THEN Unmarshal(r.variable_before) ELSE Failed
             a == IF r.variable_after # NULL THEN Unmarshal(r.variable_after) ELSE Failed
             rec1 == IF b.ok THEN [rec EXCEPT !.VariableBefore = b.val] ELSE rec
         IN  IF r.variable_before # NULL /\ ~b.ok THEN [err |-> "decode", rec |-> rec]
             ELSE IF r.variable_after # NULL /\ ~a.ok THEN [err |-> "decode", rec |-> rec1]
             ELSE [err |-> "nil",
                   rec |-> IF a.ok THEN [rec1 EXCEPT !.VariableAfter = a.val] ELSE rec1]

\* mutant: PostGet skips a column it cannot decode and reports success
PostGetSwallowingErrors(rec, r) ==
    IF r = NoRow THEN [err |-> "norows", rec |-> rec]
    ELSE LET b == IF r.variable_before # NULL THEN Unmarshal(r.variable_before) ELSE Failed
             a == IF r.variable_after # NULL THEN Unmarshal(r.variable_after) ELSE Failed
             rec1 == IF b.ok THEN [rec EXCEPT !.VariableBefore = Redacted(b.val)] ELSE rec
         IN  [err |-> "nil",
              rec |-> IF a.ok THEN [rec1 EXCEPT !.VariableAfter = Redacted(a.val)] ELSE rec1]

\* PostGet on record rec with stored row r: the error returned and the record
\* afterwards. A NULL column is not Valid and leaves its field alone.
PostGet(rec, r) ==
    IF r = NoRow THEN [err |-> "norows", rec |-> rec]
    ELSE LET b == IF r.variable_before # NULL THEN Unmarshal(r.variable_before) ELSE Failed
             a == IF r.variable_after # NULL THEN Unmarshal(r.variable_after) ELSE Failed
             rec1 == IF b.ok THEN [rec EXCEPT !.VariableBefore = Redacted(b.val)] ELSE rec
         IN  IF r.variable_before # NULL /\ ~b.ok THEN [err |-> "decode", rec |-> rec]
             ELSE IF r.variable_after # NULL /\ ~a.ok THEN [err |-> "decode", rec |-> rec1]
             ELSE [err |-> "nil",
                   rec |-> IF a.ok THEN [rec1 EXCEPT !.VariableAfter = Redacted(a.val)]
                           ELSE rec1]

\* the row as the mapper's INSERT leaves it: the snapshot columns are not mapped
InsertedRow == [variable_before |-> NULL, variable_after |-> NULL]

\* Insert of a record: PreInsert, the INSERT, PostInsert
AuditInsert ==
    /\ auditRow = NoRow
    /\ \E rec \in Records, outcome \in MarshalOutcomes :
          LET pre == PreInsert(rec)
              post == PostInsert(pre, InsertedRow, outcome)
          IN  /\ auditRow' = post.row
              /\ aErr' = post.err
              /\ IF post.err = "nil"
                 THEN given' = rec /\ pva' = pre /\ rowFrom' = "insert"
                 ELSE UNCHANGED <<given, pva, rowFrom>>
    /\ aOp' = "insert"
    /\ UNCHANGED <<signedVars, projVars>>

\* Update with a record the caller filled in: the UPDATE, then PostUpdate
AuditUpdate ==
    /\ auditRow # NoRow
    /\ \E rec \in Records, outcome \in MarshalOutcomes :
          LET post == PostUpdate(rec, auditRow, outcome)
          IN  /\ auditRow' = post.row
              /\ aErr' = post.err
              /\ IF post.err = "nil"
                 THEN given' = rec /\ pva' = rec /\ rowFrom' = "update"
                 ELSE UNCHANGED <<given, pva, rowFrom>>
    /\ aOp' = "update"
    /\ UNCHANGED <<signedVars, projVars>>

\* Get: the mapper fills a fresh record, then PostGet
AuditGet ==
    /\ aOp # "get"
    /\ LET got == PostGet(ZeroRecord, auditRow)
       IN  /\ pva' = got.rec
           /\ aErr' = got.err
    /\ aOp' = "get"
    /\ UNCHANGED <<auditRow, given, rowFrom, signedVars, projVars>>

\* Update of the record just read: PostUpdate on what PostGet produced
AuditUpdateRead ==
    /\ aOp = "get"
    /\ aErr = "nil"
    /\ \E outcome \in MarshalOutcomes :
          LET post == PostUpdate(pva, auditRow, outcome)
          IN  /\ auditRow' = post.row
              /\ aErr' = post.err
              /\ IF post.err = "nil"
                 THEN given' = pva /\ rowFrom' = "updateRead"
                 ELSE UNCHANGED <<given, rowFrom>>
    /\ aOp' = "updateRead"
    /\ UNCHANGED <<pva, signedVars, projVars>>

\* column contents written by other means than these hooks (older versions,
\* direct statements): well-formed and malformed JSON texts
LegacyTexts ==
    {Marshal(v) : v \in AuditVariables}
    \cup {<<"null">>,
          <<"{", "}">>,
          <<"{", "type:">> \o JSONString(SecretVariable) \o <<",", "value:">>
              \o JSONString(<<"s", "3">>) \o <<",", "x:", "1", "}">>,
          <<"{", "name:">>,
          <<"{", "value:", "\"", "s", "\\", "x", "\"", "}">>,
          <<"{", "id:">> \o JSONString(<<"s">>) \o <<"}">>,
          <<"s", "3">>}

LegacyStore ==
    /\ \E b \in LegacyTexts \cup {NULL}, a \in LegacyTexts \cup {NULL} :
          auditRow' = [variable_before |-> b, variable_after |-> a]
    /\ aOp' = "legacy"
    /\ rowFrom' = "legacy"
    /\ aErr' = "nil"
    /\ pva' = ZeroRecord
    /\ given' = ZeroRecord
    /\ UNCHANGED <<signedVars, projVars>>

----------------------------------------------------------------------------
(* dbProject *)

\* a project has at most MaxServers VCS servers
MaxServers == 1

ServerNames == {"github", "gitlab"}
VCSDocuments == UNION {[1..n -> ServerNames] : n \in 0..MaxServers}
Metadatas == {<<>>, <<"k">>}

\* secret.Encrypt, secret.Decrypt: a sealed blob is recognisable as such, bytes
\* that were not sealed do not open
Encrypt(b) == <<"enc">> \o b
Decrypt(c) == IF c # <<>> /\ c[1] = "enc" THEN [ok |-> TRUE, val |-> Tail(c)]
              ELSE Failed

\* yaml.Marshal of the list of servers: one "- name" item per server
RECURSIVE YamlMarshal(_)
YamlMarshal(l) == IF l = <<>> THEN <<>> ELSE <<"-", Head(l)>> \o YamlMarshal(Tail(l))

\* yaml.Unmarshal into a list of servers
RECURSIVE YamlUnmarshal(_)
YamlUnmarshal(b) ==
    IF b = <<>> THEN [ok |-> TRUE, val |-> <<>>]
    ELSE IF Len(b) < 2 \/ b[1] # "-" \/ b[2] \notin ServerNames THEN Failed
    ELSE LET rest == YamlUnmarshal(Tail(Tail(b)))
         IN  IF rest.ok THEN [ok |-> TRUE, val |-> <<b[2]>> \o rest.val] ELSE Failed

\* json.Marshal of the metadata, and gorpmapping.JSONNullString on the column
MetadataMarshal(m) == <<"{">> \o m \o <<"}">>
MetadataUnmarshal(t) ==
    IF Len(t) >= 2 /\ t[1] = "{" /\ t[Len(t)] = "}"
    THEN [ok |-> TRUE, val |-> SubSeq(t, 2, Len(t) - 1)]
    ELSE Failed

ZeroProject == [Metadata |-> <<>>, VCSServers |-> <<>>, DeprecatedVCSServers |-> <<>>]

\* outcome of the calls of one PostUpdate that can return an error
UpdateOutcomes == {"ok", "jsonFails", "yamlFails", "encryptFails"}

\* PostUpdate on project q with stored row r: the error and the row afterwards
ProjectPostUpdate(q, r, outcome) ==
    IF outcome = "jsonFails" THEN [err |-> "encode", row |-> r]
    ELSE IF Len(q.VCSServers) > 0
    THEN IF outcome = "yamlFails" THEN [err |-> "encode", row |-> r]
         ELSE IF outcome = "encryptFails" THEN [err |-> "encrypt", row |-> r]
         ELSE [err |-> "nil",
               row |-> IF r = NoRow THEN NoRow
                       ELSE [metadata |-> MetadataMarshal(q.Metadata),
                             vcs_servers |-> Encrypt(YamlMarshal(q.VCSServers))]]
    ELSE [err |-> "nil",
          row |-> IF r = NoRow THEN NoRow
                  ELSE [r EXCEPT !.metadata = MetadataMarshal(q.Metadata)]]

\* PostInsert delegates to PostUpdate
ProjectPostInsert(q, r, outcome) == ProjectPostUpdate(q, r, outcome)

\* mutant: a blob that does not open is handled like one that does not decode
ProjectPostGetTolerant(q, r, outcome) ==
    IF r = NoRow THEN [err |-> "norows", p |-> q, row |-> r, updates |-> 0]
    ELSE LET m == IF r.metadata # NULL THEN MetadataUnmarshal(r.metadata) ELSE Failed
             q1 == IF m.ok THEN [q EXCEPT !.Metadata = m.val] ELSE q
             d == Decrypt(r.vcs_servers)
             y == IF d.ok THEN YamlUnmarshal(d.val) ELSE Failed
             q2 == [q1 EXCEPT !.VCSServers = <<>>]
         IN  IF r.metadata # NULL /\ ~m.ok
             THEN [err |-> "decode", p |-> q, row |-> r, updates |-> 0]
             ELSE IF Len(r.vcs_servers) = 0
             THEN [err |-> "nil", p |-> q1, row |-> r, updates |-> 0]
             ELSE IF d.ok /\ Len(d.val) = 0
             THEN [err |-> "nil", p |-> q1, row |-> r, updates |-> 0]
             ELSE IF ~y.ok
             THEN [err |-> "nil", p |-> q2,
                   row |-> ProjectPostUpdate(q2, r, outcome).row, updates |-> 1]
             ELSE [err |-> "nil", p |-> [q1 EXCEPT !.DeprecatedVCSServers = y.val],
                   row |-> r, updates |-> 0]

\* PostGet on project q with stored row r: the error returned, the project and
\* the row afterwards, and the number of db.Update calls made. db.Update runs
\* PostUpdate (outcome: how its calls end) and its result is dropped.
ProjectPostGet(q, r, outcome) ==
    IF r = NoRow THEN [err |-> "norows", p |-> q, row |-> r, updates |-> 0]
    ELSE LET m == IF r.metadata # NULL THEN MetadataUnmarshal(r.metadata) ELSE Failed
             q1 == IF m.ok THEN [q EXCEPT !.Metadata = m.val] ELSE q
             d == Decrypt(r.vcs_servers)
             y == IF d.ok THEN YamlUnmarshal(d.val) ELSE Failed
             q2 == [q1 EXCEPT !.VCSServers = <<>>]
         IN  IF r.metadata # NULL /\ ~m.ok
             THEN [err |-> "decode", p |-> q, row |-> r, updates |-> 0]
             ELSE IF Len(r.vcs_servers) = 0
             THEN [err |-> "nil", p |-> q1, row |-> r, updates |-> 0]
             ELSE IF ~d.ok
             THEN [err |-> "decrypt", p |-> q1, row |-> r, updates |-> 0]
             ELSE IF Len(d.val) = 0
             THEN [err |-> "nil", p |-> q1, row |-> r, updates |-> 0]
             ELSE IF ~y.ok
             THEN [err |-> "nil", p |-> q2,
                   row |-> ProjectPostUpdate(q2, r, outcome).row, updates |-> 1]
             ELSE [err |-> "nil", p |-> [q1 EXCEPT !.DeprecatedVCSServers = y.val],
                   row |-> r, updates |-> 0]

\* the row as the mapper's INSERT leaves it: both columns are written by the hook
InsertedProjectRow == [metadata |-> NULL, vcs_servers |-> <<>>]

Projects == [Metadata : Metadatas, VCSServers : VCSDocuments,
             DeprecatedVCSServers : {<<>>}]

\* Insert of a project: the INSERT, then PostInsert
ProjectInsert ==
    /\ projRow = NoRow
    /\ \E q \in Projects, outcome \in UpdateOutcomes :
          LET post == ProjectPostInsert(q, InsertedProjectRow, outcome)
          IN  /\ p' = q
              /\ projRow' = post.row
              /\ pErr' = post.err
    /\ pOp' = "insert"
    /\ UNCHANGED <<fields, updates, signedVars, auditVars>>

\* Update of a project the caller filled in: the UPDATE, then PostUpdate
ProjectUpdate ==
    /\ projRow # NoRow
    /\ \E q \in Projects, outcome \in UpdateOutcomes :
          LET post == ProjectPostUpdate(q, projRow, outcome)
          IN  /\ p' = q
              /\ projRow' = post.row
              /\ pErr' = post.err
    /\ pOp' = "update"
    /\ UNCHANGED <<fields, updates, signedVars, auditVars>>

\* Get: the mapper fills a fresh project, then PostGet
ProjectGet ==
    /\ projRow # NoRow
    /\ pOp # "get"
    /\ \E outcome \in UpdateOutcomes :
          LET got == ProjectPostGet(ZeroProject, projRow, outcome)
          IN  /\ p' = got.p
              /\ projRow' = got.row
              /\ pErr' = got.err
              /\ updates' = got.updates
    /\ fields' = projRow.vcs_servers
    /\ pOp' = "get"
    /\ UNCHANGED <<signedVars, auditVars>>

\* what a damaged vcs_servers column can hold: sealed bytes that are no YAML
\* list, a sealed empty document, bytes that do not open
DamagedBlobs == {Encrypt(<<"-">>), Encrypt(<<"[", "github">>), Encrypt(<<>>),
                 <<"garbage">>}

\* the stored blob is damaged on disk
ProjectDamage ==
    /\ projRow # NoRow
    /\ \E b \in DamagedBlobs : projRow' = [projRow EXCEPT !.vcs_servers = b]
    /\ pOp' = "damage"
    /\ UNCHANGED <<p, fields, pErr, updates, signedVars, auditVars>>

----------------------------------------------------------------------------
(* Specifications *)

Init ==
    /\ kind = "none"
    /\ row = NoRow
    /\ sig = <<>>
    /\ signedRow = NoRow
    /\ varGiven = Nil
    /\ loaded = Nil
    /\ sOp = "none"
    /\ auditRow = NoRow
    /\ pva = ZeroRecord
    /\ given = ZeroRecord
    /\ aOp = "none"
    /\ aErr = "nil"
    /\ rowFrom = "none"
    /\ projRow = NoRow
    /\ p = ZeroProject
    /\ fields = <<>>
    /\ pOp = "none"
    /\ pErr = "nil"
    /\ updates = 0

\* the audit table, written by the hooks only
Next == AuditInsert \/ AuditUpdate \/ AuditGet \/ AuditUpdateRead
Spec == Init /\ [][Next]_vars

\* the audit table, holding also rows the hooks did not write
NextLegacy == LegacyStore \/ AuditGet \/ AuditUpdateRead
SpecLegacy == Init /\ [][NextLegacy]_vars

\* the project table
NextProject == ProjectInsert \/ ProjectUpdate \/ ProjectGet \/ ProjectDamage
SpecProject == Init /\ [][NextProject]_vars

\* a signed row of project_variable or project_key
NextSigned == InsertVariable \/ InsertKey \/ TamperIdentity \/ TamperValue \/ Load
SpecSigned == Init /\ [][NextSigned]_vars

----------------------------------------------------------------------------
(* Properties *)

\* the snapshot a stored column decodes to
Stored(col) == Unmarshal(col)
Columns == {"variable_before", "variable_after"}
Snapshot(rec, c) == IF c = "variable_before" THEN rec.VariableBefore
                    ELSE rec.VariableAfter

\* C1: after any sequence of audit writes on an empty table (insert, update,
\* update of a record just read), every stored snapshot of a secret-class type
\* has the placeholder as its value.
C1_StoredSecretsRedacted ==
    auditRow # NoRow =>
        \A c \in Columns :
            (auditRow[c] # NULL /\ Stored(auditRow[c]).ok
                /\ NeedPlaceholder(Stored(auditRow[c]).val.Type))
            => Stored(auditRow[c]).val.Value = PasswordPlaceholder

\* C2: the row newDBProjectVariable builds holds the value in the column its
\* type selects: the sealed column for a secret-class type, with the clear
\* column empty, and the clear column otherwise, with the sealed column empty;
\* the two columns are never both non-empty.
C2_ValueInSelectedColumn ==
    kind = "variable" =>
        /\ NeedPlaceholder(varGiven.Type) =>
              signedRow.ClearValue = <<>> /\ signedRow.CipherValue = varGiven.Value
        /\ ~NeedPlaceholder(varGiven.Type) =>
              signedRow.CipherValue = <<>> /\ signedRow.ClearValue = varGiven.Value
        /\ signedRow.ClearValue = <<>> \/ signedRow.CipherValue = <<>>

C2_Witness ==
    /\ kind = "variable"
    /\ NeedPlaceholder(varGiven.Type)
    /\ varGiven.Value # <<>>
    /\ signedRow.CipherValue = varGiven.Value

\* the blob PostGet scanned opens to bytes that are not empty and do not decode
ScannedBlobUndecodable ==
    /\ Len(fields) > 0
    /\ Decrypt(fields).ok
    /\ Len(Decrypt(fields).val) > 0
    /\ ~YamlUnmarshal(Decrypt(fields).val).ok

\* C3: when the stored vcs_servers blob opens to non-empty bytes that do not
\* decode, PostGet returns no error, the in-memory VCS document is empty, one
\* corrective update is issued, and the stored blob is cleared by it.
C3_UndecodableBlobCleared ==
    (pOp = "get" /\ ScannedBlobUndecodable) =>
        /\ pErr = "nil"
        /\ p.VCSServers = <<>>
        /\ updates = 1
        /\ projRow.vcs_servers = <<>>

\* the identity fields in which the stored row differs from the row signed
Changed == {f \in IdentityFields(kind) : row[f] # signedRow[f]}
Verified == Canonical(kind, row) = sig

\* C4: the signature of a variable or key row verifies on read when no identity
\* field changed since signing, whatever became of the value columns, and does
\* not verify when exactly one identity field changed.
C4_SingleFieldTamperDetected ==
    kind # "none" =>
        /\ Changed = {} => Verified
        /\ Cardinality(Changed) = 1 => ~Verified
        /\ sOp = "load" => Verified
        /\ sOp = "integrityError" => ~Verified

C4_Witness ==
    /\ kind = "variable"
    /\ sOp = "integrityError"
    /\ Cardinality(Changed) = 1
    /\ row.ClearValue # signedRow.ClearValue

\* C5: the variable read back from the row newDBProjectVariable built has the
\* ID, Name, Type and Value of the variable given, for either class.
C5_VariableRoundTrip ==
    (kind = "variable" /\ sOp = "load" /\ row = signedRow) => loaded = varGiven

C5_Witness ==
    /\ kind = "variable"
    /\ sOp = "load"
    /\ row = signedRow
    /\ NeedPlaceholder(varGiven.Type)
    /\ varGiven.Value # <<>>
    /\ loaded = varGiven

\* C6: after PostGet returns without error, every present snapshot of a
\* secret-class type has the placeholder as its value in the record (its other
\* fields as stored), and every present snapshot of a plain type is as stored.
C6_RedactedOnRead ==
    (aOp = "get" /\ aErr = "nil") =>
        \A c \in Columns :
            auditRow[c] # NULL =>
                LET v == Stored(auditRow[c]).val
                IN  Snapshot(pva, c) = IF NeedPlaceholder(v.Type)
                                       THEN [v EXCEPT !.Value = PasswordPlaceholder]
                                       ELSE v

C6_Witness ==
    /\ aOp = "get"
    /\ aErr = "nil"
    /\ auditRow.variable_before # NULL
    /\ NeedPlaceholder(Stored(auditRow.variable_before).val.Type)
    /\ Stored(auditRow.variable_before).val.Value = <<"s", "3">>
    /\ pva.VariableBefore.Value = PasswordPlaceholder
    /\ ~NeedPlaceholder(pva.VariableAfter.Type)

IsPlain(v) == ~NeedPlaceholder(v.Type)

\* C7: an audit record inserted with plain snapshots and read back has the
\* before and after snapshots given; inserted without a before snapshot, its
\* variable_before column is NULL and the record read back has none.
C7_PlainAuditRoundTrip ==
    (rowFrom = "insert" /\ IsPlain(given.VariableAfter)
        /\ (given.VariableBefore = Nil \/ IsPlain(given.VariableBefore))) =>
        /\ given.VariableBefore = Nil => auditRow.variable_before = NULL
        /\ (aOp = "get" /\ aErr = "nil") =>
              /\ pva.VariableBefore = given.VariableBefore
              /\ pva.VariableAfter = given.VariableAfter

C7_Witness ==
    /\ rowFrom = "insert"
    /\ aOp = "get"
    /\ aErr = "nil"
    /\ given.VariableBefore # Nil
    /\ IsPlain(given.VariableBefore)
    /\ IsPlain(given.VariableAfter)
    /\ given.VariableBefore.Value # given.VariableAfter.Value
    /\ pva = given

\* the blob PostGet scanned is not empty and does not open
ScannedBlobUnopenable == Len(fields) > 0 /\ ~Decrypt(fields).ok

\* C8 as stated: a stored blob that does not open is tolerated by PostGet: no
\* error, the in-memory VCS document cleared, a corrective update issued.
C8_UnopenableBlobTolerated ==
    (pOp = "get" /\ ScannedBlobUnopenable) =>
        /\ pErr = "nil"
        /\ p.VCSServers = <<>>
        /\ updates = 1

\* C8 amended: a stored blob that does not open makes PostGet return the
\* error of secret.Decrypt; no corrective update is issued, the stored blob
\* stays as it was and the VCS documents of the fresh record stay empty.
C8_UnopenableBlobIsAnError ==
    (pOp = "get" /\ ScannedBlobUnopenable) =>
        /\ pErr = "decrypt"
        /\ updates = 0
        /\ projRow.vcs_servers = fields
        /\ p.VCSServers = <<>>
        /\ p.DeprecatedVCSServers = <<>>

C8_Witness ==
    /\ pOp = "get"
    /\ ScannedBlobUnopenable
    /\ pErr = "decrypt"

\* the json.Marshal call of PostUpdate that outcome makes fail is reached
EncodingFails(rec, outcome) ==
    \/ outcome = "beforeFails" /\ rec.VariableBefore # Nil
    \/ outcome = "afterFails"

\* C9: PostGet returns an error when a present column does not decode, and
\* PostUpdate on the record in memory returns an error and leaves the stored
\* row as it is when the encoding of its before or after snapshot fails.
C9_CodecFailuresSurfaced ==
    /\ (aOp = "get" /\ auditRow # NoRow
          /\ \E c \in Columns : auditRow[c] # NULL /\ ~Stored(auditRow[c]).ok)
       => aErr = "decode"
    /\ \A outcome \in MarshalOutcomes :
          EncodingFails(pva, outcome) =>
              /\ PostUpdate(pva, auditRow, outcome).err # "nil"
              /\ PostUpdate(pva, auditRow, outcome).row = auditRow
    /\ (aOp = "updateRead" /\ aErr = "nil") =>
          auditRow.variable_after = Marshal(pva.VariableAfter)

C9_Witness ==
    /\ aOp = "get"
    /\ aErr = "decode"
    /\ auditRow.variable_before # NULL
    /\ Stored(auditRow.variable_before).ok
    /\ ~Stored(auditRow.variable_after).ok

\* C10: two variable rows, or two key rows, that differ in an identity field
\* have different canonical forms: the signature made for one never verifies
\* for the other.
C10_CanonicalInjective ==
    (kind # "none" /\ Changed # {}) => ~Verified

====
